---------------------------- MODULE Spec2Model ----------------------------
(* Model of the AccountTokens screen                                       *)
(* (packages/extension/src/ui/features/accountTokens/AccountTokens.tsx).   *)
(*                                                                         *)
(* One render of the component is one step: the function body computes the *)
(* element tree from the values its hooks return, and the effects whose    *)
(* dependencies changed run right after, in the order they are declared.   *)
(* Values the hooks return are the step's inputs.  Optional values are     *)
(* sequences of length at most one: <<>> is undefined, <<x>> is x.         *)
EXTENDS Integers, Sequences, FiniteSets

VARIABLES
    mounted,                 \* the component is mounted
    hooks,                   \* the values the hooks returned in the last render
    view,                    \* the element tree the last render returned
    hadPendingTransactions,  \* hadPendingTransactions.current
    timeoutId,               \* timeoutId of the last run of the review effect (0: undefined)
    timers,                  \* the pending setTimeout timers
    calls,                   \* the calls to collaborators made by the last step, in order
    connected,               \* the argument of the last connectAccount call (0: none)
    redeploys                \* the invocations of onRedeploy

vars == <<mounted, hooks, view, hadPendingTransactions, timeoutId, timers,
          calls, connected, redeploys>>

-----------------------------------------------------------------------------
(* Bounds of the model.                                                    *)
MaxAccounts == 2
MaxPending == 1
MaxTxBeforeReview == 1
MaxFee == 1
MaxTimerId == 2
MaxRedeploys == 2
TickMs == 500

(* The delay of the review timer, in ms.                                   *)
ReviewDelay == 1000

Accounts == 1..MaxAccounts
NavigateFns == {"navigate1", "navigate2"}
MutateFns == {"mutate1", "mutate2"}
Errors == {"Error"}
TxHashes == {"0xa", "0xb"}
Opt(S) == {<<>>} \cup {<<x>> : x \in S}

(* The values the hooks of one render return.                              *)
HookValues ==
    [account : Accounts,                     \* the account prop
     deprecated : BOOLEAN,                   \* isDeprecated(account)
     pending : 0..MaxPending,                \* pendingTransactions.length
     backup : BOOLEAN,                       \* isBackupRequired
     tbr : Opt(0..MaxTxBeforeReview),        \* transactionsBeforeReview
     reviewed : BOOLEAN,                     \* userHasReviewed
     shouldShow : BOOLEAN,                   \* shouldShowNetworkUpgradeMessage
     navigate : NavigateFns,                 \* identity of navigate
     mutate : MutateFns,                     \* identity of mutate
     data : Opt(BOOLEAN),                    \* data of the upgrade check
     fee : Opt(0..MaxFee),                   \* feeTokenBalance
     error : Opt(Errors),                    \* error of useTokensWithBalance
     deployed : BOOLEAN]                     \* accountIsDeployed

DefaultHooks ==
    [account |-> 1, deprecated |-> FALSE, pending |-> 0, backup |-> FALSE,
     tbr |-> <<>>, reviewed |-> FALSE, shouldShow |-> FALSE,
     navigate |-> "navigate1", mutate |-> "mutate1", data |-> <<>>,
     fee |-> <<>>, error |-> <<>>, deployed |-> FALSE]

-----------------------------------------------------------------------------
(* The derived booleans of the function body.                              *)

HasPendingTransactions(h) == h.pending > 0

\* const { data: needsUpgrade = false } : the default stands for undefined
NeedsUpgrade(h) == IF h.data = <<>> THEN FALSE ELSE h.data[1]

\* feeTokenBalance?.gt(0) and ?.lte(0): undefined (falsy) without a balance
FeeGtZero(h) == IF h.fee = <<>> THEN FALSE ELSE h.fee[1] > 0
FeeLteZero(h) == IF h.fee = <<>> THEN FALSE ELSE h.fee[1] <= 0

ShowUpgradeBannerIgnoringPending(h) == NeedsUpgrade(h) /\ FeeGtZero(h)
ShowUpgradeBanner(h) ==
    NeedsUpgrade(h) /\ ~HasPendingTransactions(h) /\ FeeGtZero(h)

ShowNoBalanceForUpgradeNotGt(h) ==
    NeedsUpgrade(h) /\ ~HasPendingTransactions(h) /\ ~FeeGtZero(h)
ShowNoBalanceForUpgrade(h) ==
    NeedsUpgrade(h) /\ ~HasPendingTransactions(h) /\ FeeLteZero(h)

ShowBackupBannerAlways(h) == h.backup
ShowBackupBanner(h) == h.backup /\ ~ShowUpgradeBanner(h)

-----------------------------------------------------------------------------
(* The element tree.  An element is its component, the components above   *)
(* it, and the props the properties below read.  The fallback prop of the  *)
(* ErrorBoundary is a prop, not a child: it is no element of the tree.     *)

Elem(type, ancestors) ==
    [type |-> type, ancestors |-> ancestors, to |-> "", from |-> FALSE,
     canNotPay |-> FALSE, error |-> <<>>, message |-> "", showTitle |-> FALSE]

FetchErrorMessage == "Sorry, an error occurred fetching tokens"

HeaderElems(h) ==
    {Elem("Flex", <<>>),
     Elem("VStack", <<"Flex">>),
     Elem("AccountTokensHeader", <<"Flex", "VStack">>),
     Elem("AccountTokensButtons", <<"Flex", "VStack">>)}

BannerElems(h) ==
    {Elem("CellStack", <<"Flex">>),
     Elem("StatusMessageBannerContainer", <<"Flex", "CellStack">>),
     Elem("TokenListMulticall", <<"Flex", "CellStack">>)}
    \cup (IF h.deprecated
          THEN {Elem("MigrationBanner", <<"Flex", "CellStack">>)} ELSE {})
    \cup (IF ShowBackupBanner(h)
          THEN {Elem("RecoveryBanner", <<"Flex", "CellStack">>)} ELSE {})
    \cup (IF ShowUpgradeBanner(h)
          THEN {[Elem("UpgradeBanner", <<"Flex", "CellStack">>)
                    EXCEPT !.to = "accountUpgradeV4", !.from = TRUE]}
          ELSE {})
    \cup (IF ShowNoBalanceForUpgrade(h)
          THEN {[Elem("UpgradeBanner", <<"Flex", "CellStack">>)
                    EXCEPT !.to = "funding", !.canNotPay = TRUE]}
          ELSE {})

TokenListElems(h, above) ==
    {[Elem("TokenList", above) EXCEPT !.showTitle = HasPendingTransactions(h)],
     Elem("NewTokenButton", Append(above, "TokenList"))}

FallbackElems(h, above) ==
    {[Elem("ErrorBoundaryFallbackWithCopyError", above)
         EXCEPT !.error = h.error, !.message = FetchErrorMessage]}

TokensSectionUnwrapped(h) ==
    IF h.deployed
    THEN {Elem("ErrorBoundary", <<"Flex">>)}
         \cup (IF h.error # <<>>
               THEN FallbackElems(h, <<"Flex", "ErrorBoundary">>)
               ELSE TokenListElems(h, <<"Flex">>))
    ELSE {}
TokensSectionBoth(h) ==
    IF h.deployed
    THEN {Elem("ErrorBoundary", <<"Flex">>)}
         \cup (IF h.error # <<>>
               THEN FallbackElems(h, <<"Flex", "ErrorBoundary">>)
               ELSE {})
         \cup TokenListElems(h, <<"Flex", "ErrorBoundary">>)
    ELSE {}
TokensSection(h) ==
    IF h.deployed
    THEN {Elem("ErrorBoundary", <<"Flex">>)}
         \cup (IF h.error # <<>>
               THEN FallbackElems(h, <<"Flex", "ErrorBoundary">>)
               ELSE TokenListElems(h, <<"Flex", "ErrorBoundary">>))
    ELSE {}

RenderTree(h) == HeaderElems(h) \cup BannerElems(h) \cup TokensSection(h)

-----------------------------------------------------------------------------
(* Calls to collaborators.  account is 0, arg and via "", data <<>>        *)
(* where the call has no such argument.                                    *)

Call(fn) == [fn |-> fn, account |-> 0, arg |-> "", via |-> "", data |-> <<>>]
ConnectCall(a) == [Call("connectAccount") EXCEPT !.account = a]
MutateCall(m, d) == [Call("mutate") EXCEPT !.via = m, !.data = <<d>>]
NavigateCall(n, r) == [Call("navigate") EXCEPT !.via = n, !.arg = r]
UpdateLastShownCall == Call("updateLastShown")
RedeployAccountCall(a) == [Call("redeployAccount") EXCEPT !.account = a]
UpdateDeployTxCall(a, txHash) ==
    [Call("updateDeployTx") EXCEPT !.account = a, !.arg = txHash]

-----------------------------------------------------------------------------
(* The review effect: useEffect(..., [navigate, transactionsBeforeReview,  *)
(* userHasReviewed]).                                                      *)

ReviewDepsChanged(old, new) ==
    \/ old.navigate # new.navigate
    \/ old.tbr # new.tbr
    \/ old.reviewed # new.reviewed

\* !userHasReviewed && transactionsBeforeReview === 0
ReviewDue(h) == ~h.reviewed /\ h.tbr = <<0>>

\* () => timeoutId && clearTimeout(timeoutId)
ReviewCleanupNothing(ts, tid) == ts
ReviewCleanup(ts, tid) ==
    IF tid # 0 THEN {t \in ts : t.id # tid} ELSE ts

\* setTimeout returns a handle that is not 0 and is not one of a pending timer
FreshTimerIds(ts) == {i \in 1..MaxTimerId : \A t \in ts : t.id # i}

ReviewEffect(isMount, new) ==
    IF isMount \/ ReviewDepsChanged(hooks, new)
    THEN LET cleared == IF isMount THEN timers
                        ELSE ReviewCleanup(timers, timeoutId)
         IN  IF ReviewDue(new)
             THEN \E id \in FreshTimerIds(cleared) :
                    /\ timeoutId' = id
                    /\ timers' = cleared \cup
                          {[id |-> id, navigate |-> new.navigate, elapsed |-> 0]}
             ELSE /\ timeoutId' = 0
                  /\ timers' = cleared
    ELSE UNCHANGED <<timeoutId, timers>>

-----------------------------------------------------------------------------
(* The pending-transactions effect: useEffect(..., [mutate,                *)
(* hasPendingTransactions]).  Its result is the ref and the calls made.    *)

PendingDepsChanged(old, new) ==
    \/ old.mutate # new.mutate
    \/ HasPendingTransactions(old) # HasPendingTransactions(new)

PendingEffectBodyNoRef(ref, new) ==
    IF ~HasPendingTransactions(new)
    THEN [ref |-> FALSE, calls |-> <<MutateCall(new.mutate, FALSE)>>]
    ELSE [ref |-> TRUE, calls |-> <<>>]
PendingEffectBody(ref, new) ==
    LET marked == IF HasPendingTransactions(new) THEN TRUE ELSE ref
    IN  IF marked /\ HasPendingTransactions(new) = FALSE
        THEN [ref |-> FALSE, calls |-> <<MutateCall(new.mutate, FALSE)>>]
        ELSE [ref |-> marked, calls |-> <<>>]

PendingEffect(isMount, ref, old, new) ==
    IF isMount \/ PendingDepsChanged(old, new)
    THEN PendingEffectBody(ref, new)
    ELSE [ref |-> ref, calls |-> <<>>]

-----------------------------------------------------------------------------
(* useEffect(() => { connectAccount(account) }, [account])                 *)

ConnectDepsChangedAlways(old, new) == TRUE
ConnectDepsChanged(old, new) == old.account # new.account

ConnectEffect(isMount, old, new) ==
    IF isMount \/ ConnectDepsChanged(old, new)
    THEN <<ConnectCall(new.account)>>
    ELSE <<>>

-----------------------------------------------------------------------------
(* The network-upgrade effect: useEffect(..., [shouldShowNetworkUpgrade-   *)
(* Message]).                                                              *)

NetworkUpgradeBodySwapped(new) ==
    IF new.shouldShow
    THEN <<NavigateCall(new.navigate, "networkUpgradeV4"), UpdateLastShownCall>>
    ELSE <<>>
NetworkUpgradeBody(new) ==
    IF new.shouldShow
    THEN <<UpdateLastShownCall, NavigateCall(new.navigate, "networkUpgradeV4")>>
    ELSE <<>>

NetworkUpgradeEffect(isMount, old, new) ==
    IF isMount \/ old.shouldShow # new.shouldShow
    THEN NetworkUpgradeBody(new)
    ELSE <<>>

-----------------------------------------------------------------------------
(* One render with the hook values h, and the effects after it.            *)

Commit(isMount, h) ==
    LET ref0 == IF isMount THEN FALSE ELSE hadPendingTransactions
        pend == PendingEffect(isMount, ref0, hooks, h)
        conn == ConnectEffect(isMount, hooks, h)
        netw == NetworkUpgradeEffect(isMount, hooks, h)
    IN  /\ hooks' = h
        /\ view' = RenderTree(h)
        /\ ReviewEffect(isMount, h)
        /\ hadPendingTransactions' = pend.ref
        /\ calls' = pend.calls \o conn \o netw
        /\ connected' = IF conn # <<>> THEN h.account ELSE connected

Mount(h) ==
    /\ ~mounted
    /\ mounted' = TRUE
    /\ Commit(TRUE, h)
    /\ UNCHANGED redeploys

Rerender(h) ==
    /\ mounted
    /\ mounted' = TRUE
    /\ Commit(FALSE, h)
    /\ UNCHANGED redeploys

Unmount ==
    /\ mounted
    /\ mounted' = FALSE
    /\ hooks' = DefaultHooks
    /\ view' = {}
    /\ hadPendingTransactions' = FALSE
    /\ timers' = ReviewCleanup(timers, timeoutId)
    /\ timeoutId' = 0
    /\ calls' = <<>>
    /\ UNCHANGED <<connected, redeploys>>

(* Time passes for the pending timers.                                     *)
Tick ==
    /\ \E t \in timers : t.elapsed < ReviewDelay
    /\ timers' = {[t EXCEPT !.elapsed =
                      IF t.elapsed + TickMs < ReviewDelay
                      THEN t.elapsed + TickMs ELSE ReviewDelay] : t \in timers}
    /\ calls' = <<>>
    /\ UNCHANGED <<mounted, hooks, view, hadPendingTransactions, timeoutId,
                   connected, redeploys>>

(* A timer fires: () => navigate(routes.userReview())                      *)
TimerFire ==
    \E t \in timers :
        /\ t.elapsed >= ReviewDelay
        /\ timers' = timers \ {t}
        /\ calls' = <<NavigateCall(t.navigate, "userReview")>>
        /\ UNCHANGED <<mounted, hooks, view, hadPendingTransactions, timeoutId,
                       connected, redeploys>>

-----------------------------------------------------------------------------
(* onRedeploy = useCallback(async () => {...}, [account]).  An invocation *)
(* is idle, awaiting redeployAccount, or has returned.  result is what     *)
(* redeployAccount settled with (<<>>: it rejected, <<txHash>>: it         *)
(* resolved), outcome how the promise of onRedeploy settled, updates the   *)
(* arguments of the invocation's account.updateDeployTx calls.             *)

IdleRedeploy ==
    [state |-> "idle", account |-> 0, result |-> <<>>, outcome |-> "",
     updates |-> <<>>]

\* the rest of the try block after the await, or the empty catch block
AfterAwaitNoCatch(inv) ==
    IF inv.result # <<>>
    THEN [inv EXCEPT !.state = "returned", !.outcome = "fulfilled",
                     !.updates = <<inv.result[1]>>]
    ELSE [inv EXCEPT !.state = "returned", !.outcome = "rejected"]
AfterAwait(inv) ==
    IF inv.result # <<>>
    THEN [inv EXCEPT !.state = "returned", !.outcome = "fulfilled",
                     !.updates = <<inv.result[1]>>]
    ELSE [inv EXCEPT !.state = "returned", !.outcome = "fulfilled"]

UpdateCalls(inv) ==
    [k \in 1..Len(inv.updates) |-> UpdateDeployTxCall(inv.account, inv.updates[k])]

\* const data = account.toBaseWalletAccount(); await redeployAccount(data)
InvokeRedeploy(i) ==
    /\ mounted
    /\ redeploys[i].state = "idle"
    /\ redeploys' = [redeploys EXCEPT ![i] =
                        [IdleRedeploy EXCEPT !.state = "awaiting",
                                             !.account = hooks.account]]
    /\ calls' = <<RedeployAccountCall(hooks.account)>>
    /\ UNCHANGED <<mounted, hooks, view, hadPendingTransactions, timeoutId,
                   timers, connected>>

\* redeployAccount settles with r and the invocation runs to its end
RedeploySettles(i, r) ==
    /\ redeploys[i].state = "awaiting"
    /\ LET inv == AfterAwait([redeploys[i] EXCEPT !.result = r])
       IN  /\ redeploys' = [redeploys EXCEPT ![i] = inv]
           /\ calls' = UpdateCalls(inv)
    /\ UNCHANGED <<mounted, hooks, view, hadPendingTransactions, timeoutId,
                   timers, connected>>

RedeployResolves(i) == \E txHash \in TxHashes : RedeploySettles(i, <<txHash>>)
RedeployRejects(i) == RedeploySettles(i, <<>>)

-----------------------------------------------------------------------------
Init ==
    /\ mounted = FALSE
    /\ hooks = DefaultHooks
    /\ view = {}
    /\ hadPendingTransactions = FALSE
    /\ timeoutId = 0
    /\ timers = {}
    /\ calls = <<>>
    /\ connected = 0
    /\ redeploys = [i \in 1..MaxRedeploys |-> IdleRedeploy]


-----------------------------------------------------------------------------
(* The effects: every value the effects depend on changes between renders, *)
(* the values only the element tree reads stay as they are.                *)

EffectHooks ==
    {[DefaultHooks EXCEPT !.account = a, !.pending = p, !.tbr = t,
                          !.reviewed = r, !.shouldShow = s, !.navigate = n,
                          !.mutate = m] :
        a \in Accounts, p \in 0..MaxPending, t \in Opt(0..MaxTxBeforeReview),
        r \in BOOLEAN, s \in BOOLEAN, n \in NavigateFns, m \in MutateFns}

MountEffects == \E h \in EffectHooks : Mount(h)
RerenderEffects == \E h \in EffectHooks : Rerender(h)

Next == MountEffects \/ RerenderEffects \/ Unmount \/ Tick \/ TimerFire

Spec == Init /\ [][Next]_vars

(* The element tree: every value the tree reads changes between renders.   *)

ViewHooks ==
    {[DefaultHooks EXCEPT !.deprecated = d, !.pending = p, !.backup = b,
                          !.data = u, !.fee = f, !.error = e, !.deployed = y] :
        d \in BOOLEAN, p \in 0..MaxPending, b \in BOOLEAN, u \in Opt(BOOLEAN),
        f \in Opt(0..MaxFee), e \in Opt(Errors), y \in BOOLEAN}

MountView == \E h \in ViewHooks : Mount(h)
RerenderView == \E h \in ViewHooks : Rerender(h)

NextView == MountView \/ RerenderView \/ Unmount

SpecView == Init /\ [][NextView]_vars

(* onRedeploy: the account prop changes between renders, and the header    *)
(* invokes the callback of the last render.                                *)

RedeployHooks == {[DefaultHooks EXCEPT !.account = a] : a \in Accounts}

MountAccount == \E h \in RedeployHooks : Mount(h)
RerenderAccount == \E h \in RedeployHooks : Rerender(h)
Redeploy == \E i \in 1..MaxRedeploys : InvokeRedeploy(i)
Resolve == \E i \in 1..MaxRedeploys : RedeployResolves(i)
Reject == \E i \in 1..MaxRedeploys : RedeployRejects(i)

NextRedeploy ==
    MountAccount \/ RerenderAccount \/ Unmount \/ Redeploy \/ Resolve \/ Reject

SpecRedeploy == Init /\ [][NextRedeploy]_vars

-----------------------------------------------------------------------------
(* Properties.                                                             *)

Inside(e, type) == \E k \in 1..Len(e.ancestors) : e.ancestors[k] = type
Rendered(type) == {e \in view : e.type = type}
PayableBanners ==
    {e \in Rendered("UpgradeBanner") : e.to = "accountUpgradeV4" /\ ~e.canNotPay}
CanNotPayBanners ==
    {e \in Rendered("UpgradeBanner") : e.to = "funding" /\ e.canNotPay}

IsMutateFalse(c) == c.fn = "mutate" /\ c.data = <<FALSE>>
IsMutate(c) == c.fn = "mutate"
IsConnect(c) == c.fn = "connectAccount"
IsNetworkUpgrade(c) ==
    \/ c.fn = "updateLastShown"
    \/ c.fn = "navigate" /\ c.arg = "networkUpgradeV4"
IsReviewNavigation(c) == c.fn = "navigate" /\ c.arg = "userReview"
Made(cs, c) == \E k \in 1..Len(cs) : cs[k] = c

\* C1: an invocation of onRedeploy that has returned completed normally; it
\* called account.updateDeployTx not at all if redeployAccount rejected, and
\* exactly once, with the txHash returned, if redeployAccount resolved.
C1_RedeployErrorsSwallowed ==
    \A i \in 1..MaxRedeploys :
        redeploys[i].state = "returned" =>
            /\ redeploys[i].outcome = "fulfilled"
            /\ redeploys[i].result = <<>> => redeploys[i].updates = <<>>
            /\ redeploys[i].result # <<>> =>
                  redeploys[i].updates = <<redeploys[i].result[1]>>

C1_Witness ==
    \E i, j \in 1..MaxRedeploys :
        /\ redeploys[i].state = "returned" /\ redeploys[i].result = <<>>
        /\ redeploys[j].state = "returned" /\ redeploys[j].result # <<>>

\* C2: with the account deployed the tree holds one ErrorBoundary and, inside
\* it, exactly one of the fallback (with the fetch error and the message) when
\* there is an error, and the TokenList when there is none; with the account
\* not deployed it holds no boundary, no fallback and no TokenList.
C2_FallbackXorTokenList ==
    mounted =>
        LET fallbacks == Rendered("ErrorBoundaryFallbackWithCopyError")
            lists == Rendered("TokenList")
        IN  IF hooks.deployed
            THEN /\ Cardinality(Rendered("ErrorBoundary")) = 1
                 /\ \A e \in fallbacks \cup lists : Inside(e, "ErrorBoundary")
                 /\ IF hooks.error # <<>>
                    THEN /\ lists = {}
                         /\ Cardinality(fallbacks) = 1
                         /\ \A e \in fallbacks :
                               /\ e.error = hooks.error
                               /\ e.message = "Sorry, an error occurred fetching tokens"
                    ELSE /\ fallbacks = {}
                         /\ Cardinality(lists) = 1
            ELSE /\ Rendered("ErrorBoundary") = {}
                 /\ fallbacks = {}
                 /\ lists = {}

C2_Witness ==
    /\ mounted /\ hooks.deployed /\ hooks.error # <<>>
    /\ Rendered("ErrorBoundaryFallbackWithCopyError") # {}

\* C3 as stated: every TokenList and every TokenListMulticall of the tree is
\* inside the ErrorBoundary.
C3_EveryTokenListInsideBoundary ==
    \A e \in Rendered("TokenList") \cup Rendered("TokenListMulticall") :
        Inside(e, "ErrorBoundary")

\* C3 amended: the tree holds at most one ErrorBoundary and every TokenList
\* is inside it; the TokenListMulticall is in every tree, inside the CellStack
\* and outside the boundary.
C3_TokenListInsideBoundary ==
    /\ Cardinality(Rendered("ErrorBoundary")) <= 1
    /\ \A e \in Rendered("TokenList") : Inside(e, "ErrorBoundary")
    /\ mounted =>
          /\ Cardinality(Rendered("TokenListMulticall")) = 1
          /\ \A e \in Rendered("TokenListMulticall") :
                Inside(e, "CellStack") /\ ~Inside(e, "ErrorBoundary")

C3_Witness == mounted /\ Rendered("TokenList") # {}

\* C4: the UpgradeBanner to the account-upgrade route is in the tree exactly
\* when the upgrade check's value is true, no transaction is pending and the
\* fee token balance is known and greater than 0.
C4_PayableBannerIff ==
    mounted =>
        (PayableBanners # {}
            <=> /\ hooks.data = <<TRUE>>
                /\ hooks.pending = 0
                /\ hooks.fee # <<>>
                /\ hooks.fee[1] > 0)

C4_Witness == mounted /\ PayableBanners # {}

\* C5: the payable and the can-not-pay banner are never both in the tree,
\* neither is with the fee token balance unknown, and the can-not-pay banner
\* is in the tree exactly when the upgrade is needed, no transaction is
\* pending and the balance is known and at most 0.
C5_CanNotPayBannerIff ==
    mounted =>
        /\ ~(PayableBanners # {} /\ CanNotPayBanners # {})
        /\ hooks.fee = <<>> => PayableBanners = {} /\ CanNotPayBanners = {}
        /\ CanNotPayBanners # {}
              <=> /\ hooks.data = <<TRUE>>
                  /\ hooks.pending = 0
                  /\ hooks.fee # <<>>
                  /\ hooks.fee[1] <= 0

C5_Witness == mounted /\ CanNotPayBanners # {}

\* C6: the RecoveryBanner is in the tree exactly when a backup is required
\* and the payable banner is not in the tree; so never with the payable
\* banner, and with the can-not-pay banner whenever a backup is required.
C6_BackupBannerIff ==
    mounted =>
        /\ Rendered("RecoveryBanner") # {}
              <=> (hooks.backup /\ PayableBanners = {})
        /\ ~(Rendered("RecoveryBanner") # {} /\ PayableBanners # {})
        /\ (hooks.backup /\ CanNotPayBanners # {})
              => Rendered("RecoveryBanner") # {}

C6_Witness ==
    mounted /\ Rendered("RecoveryBanner") # {} /\ CanNotPayBanners # {}

\* C7: a step calls mutate(false) once if it is a re-render in which
\* hasPendingTransactions goes from true to false, and calls mutate not at
\* all otherwise.
C7_MutateOncePerSettle ==
    [][SelectSeq(calls', IsMutate) =
          IF /\ mounted /\ mounted'
             /\ HasPendingTransactions(hooks)
             /\ ~HasPendingTransactions(hooks')
          THEN <<MutateCall(hooks'.mutate, FALSE)>>
          ELSE <<>>]_vars

C7_Witness ==
    /\ mounted
    /\ SelectSeq(calls, IsMutateFalse) # <<>>
    /\ ~HasPendingTransactions(hooks)

\* C8: at most one review timer is pending; a pending timer is the one the
\* last run of the review effect set, with the values of the last render
\* (not reviewed, transactionsBeforeReview 0, its navigate); and a step
\* navigates to the user-review route only by that timer, ReviewDelay ms
\* after the effect ran, with those values unchanged.
C8_TimerPending ==
    /\ Cardinality(timers) <= 1
    /\ \A t \in timers :
          /\ mounted
          /\ t.id = timeoutId
          /\ ~hooks.reviewed
          /\ hooks.tbr = <<0>>
          /\ t.navigate = hooks.navigate

C8_ReviewNavigation ==
    [](C8_TimerPending)
    /\ [][SelectSeq(calls', IsReviewNavigation) # <<>> =>
             /\ mounted /\ mounted' /\ hooks' = hooks
             /\ ~hooks.reviewed /\ hooks.tbr = <<0>>
             /\ calls' = <<NavigateCall(hooks.navigate, "userReview")>>
             /\ timers' = {}
             /\ \E t \in timers : t.id = timeoutId /\ t.elapsed = ReviewDelay]_vars

C8_Witness ==
    /\ mounted
    /\ Made(calls, NavigateCall(hooks.navigate, "userReview"))

\* C9: a step calls updateLastShownNetworkUpgradeMessage and then navigates
\* to the network-upgrade route, once each, if it is a render in which
\* shouldShowNetworkUpgradeMessage is true and was not in the render before
\* (or there was none); otherwise it makes neither call.
C9_NetworkUpgradeOnChange ==
    [][SelectSeq(calls', IsNetworkUpgrade) =
          IF /\ mounted'
             /\ hooks'.shouldShow
             /\ ~mounted \/ ~hooks.shouldShow
          THEN <<UpdateLastShownCall,
                 NavigateCall(hooks'.navigate, "networkUpgradeV4")>>
          ELSE <<>>]_vars

C9_Witness ==
    /\ mounted /\ hooks.shouldShow
    /\ Made(calls, UpdateLastShownCall)
    /\ Made(calls, NavigateCall(hooks.navigate, "networkUpgradeV4"))

\* C10: a step calls connectAccount once, with the account rendered, if it is
\* the mount or a re-render with another account, and not at all otherwise;
\* the last connectAccount call carries the account rendered.
C10_ConnectOnAccountChange ==
    [](mounted => connected = hooks.account)
    /\ [][SelectSeq(calls', IsConnect) =
             IF /\ mounted'
                /\ ~mounted \/ hooks'.account # hooks.account
             THEN <<ConnectCall(hooks'.account)>>
             ELSE <<>>]_vars

C10_Witness ==
    /\ mounted
    /\ Made(calls, ConnectCall(hooks.account))
    /\ connected = hooks.account
    /\ hooks.account # DefaultHooks.account

=============================================================================
